---- MODULE Spec2Model ----
(***************************************************************************)
(* Model of track/track.py: the Track class of the classifier pipeline.    *)
(*                                                                         *)
(* Units.  Region.mid_x is x + width / 2, so midpoints and velocities are  *)
(* multiples of half a pixel.  mid_x, mid_y, vel_x and vel_y are held here *)
(* in half-pixels (the Python value times two), which keeps them integers  *)
(* without rounding anything.  Region.mass is held in half units too, so   *)
(* that int(mass) is a real truncation.  Ratios (overlap, size difference) *)
(* are held as numerator/denominator pairs, distances as their squares.    *)
(* Within the sizes explored every Python float involved is exact, or is   *)
(* compared only against values it is far away from.                       *)
(***************************************************************************)
EXTENDS Integers, Sequences, FiniteSets, TLC

VARIABLES
    Track_track_id,  \* the class attribute Track._track_id
    tracks,          \* the Track objects of the process, in construction order
    id_args,         \* the id argument each Track was constructed with
    call             \* the last call made: its name, arguments, outcome

vars == <<Track_track_id, tracks, id_args, call>>

\* ---------------------------------------------------------------- bounds

\* most Tracks constructed
MaxTracks == 3
\* largest exclusive end frame (start_frame + len) a track grows to
MaxFrame == 4
\* the same, for each track of a pair
MaxPairFrame == 3
\* most times the controller bumps frames_since_target_seen
MaxUnseen == 1

\* ---------------------------------------------------------------- helpers

Max(a, b) == IF a >= b THEN a ELSE b
Min(a, b) == IF a <= b THEN a ELSE b
Abs(a) == IF a >= 0 THEN a ELSE -a

\* Python's int() of the rational n / d (d > 0): truncation toward zero.
int(n, d) == IF n >= 0 THEN n \div d ELSE -((-n) \div d)

Last(s) == s[Len(s)]

\* ---------------------------------------------------------------- Region
\* Region and Rectangle are imported by track.py; their contract is the one
\* of the specification's section on external interfaces.

\* Region(x, y, width, height): the non-geometric fields take their defaults.
Region(x, y, width, height) ==
    [x |-> x, y |-> y, width |-> width, height |-> height,
     mass |-> 0, pixel_variance |-> 0, frame_index |-> 0]

\* region.copy(): a value copy, sharing nothing with the original.
copy(r) ==
    [x |-> r.x, y |-> r.y, width |-> r.width, height |-> r.height,
     mass |-> r.mass, pixel_variance |-> r.pixel_variance,
     frame_index |-> r.frame_index]

\* region.mid_x and region.mid_y, in half-pixels.
mid_x(r) == 2 * r.x + r.width
mid_y(r) == 2 * r.y + r.height

area(r) == r.width * r.height

\* a.overlap_area(b): the area of the intersection of the two boxes.
overlap_area(a, b) ==
    Max(0, Min(a.x + a.width, b.x + b.width) - Max(a.x, b.x))
  * Max(0, Min(a.y + a.height, b.y + b.height) - Max(a.y, b.y))

\* region.crop(bounds): the region clipped to the rectangle bounds.
crop(r, bounds) ==
    LET left   == Min(bounds.x + bounds.width, Max(r.x, bounds.x))
        top    == Min(bounds.y + bounds.height, Max(r.y, bounds.y))
        right  == Max(bounds.x, Min(r.x + r.width, bounds.x + bounds.width))
        bottom == Max(bounds.y, Min(r.y + r.height, bounds.y + bounds.height))
    IN  [r EXCEPT !.x = left, !.y = top,
                  !.width = right - left, !.height = bottom - top]

\* ---------------------------------------------------------------- inputs

\* The video frame: every region handed to a track lies inside it.
VideoFrame == [x |-> 0, y |-> 0, width |-> 4, height |-> 3]

\* The regions the controller hands to add_frame.  RegionA and RegionC share
\* their geometry; RegionB and RegionD have half-pixel midpoints; RegionB has
\* mass 2.5 and RegionC mass 1.0 (both empty for trim), RegionA mass 50.0 and
\* RegionD mass 3.0.
RegionA == [x |-> 0, y |-> 0, width |-> 2, height |-> 2,
            mass |-> 100, pixel_variance |-> 1, frame_index |-> 0]
RegionB == [x |-> 1, y |-> 0, width |-> 3, height |-> 1,
            mass |-> 5, pixel_variance |-> 0, frame_index |-> 1]
RegionC == [x |-> 0, y |-> 0, width |-> 2, height |-> 2,
            mass |-> 2, pixel_variance |-> 0, frame_index |-> 2]
RegionD == [x |-> 3, y |-> 2, width |-> 1, height |-> 1,
            mass |-> 6, pixel_variance |-> 2, frame_index |-> 5]

Regions == {RegionA, RegionB, RegionC, RegionD}

\* The regions handed to the tracks of a pair.
PairRegions == {RegionA, RegionB}

\* The id arguments of Track(id): <<>> is None, <<n>> is the integer n.
IdArgs == {<<>>, <<0>>, <<1>>, <<5>>, <<7>>}

\* The thresholds of get_overlap_ratio, as <<numerator, denominator>>:
\* 0, the default 0.05, and 0.25.
Thresholds == {<<0, 1>>, <<1, 20>>, <<1, 4>>}

\* ---------------------------------------------------------------- Track

len(track) == Len(track.bounds_history)

\* The frame a track may still grow to: tracks are explored further alone
\* than in pairs.
CanGrow(track) ==
    track.start_frame + len(track)
        < (IF Len(tracks) > 1 THEN MaxPairFrame ELSE MaxFrame)

\* track.bounds: the last entry of the history.
bounds(track) == Last(track.bounds_history)

\* Track.__init__: `not id` holds for None and for 0.  self._track_id reads
\* the class attribute; `self._track_id += 1` stores the sum in an attribute
\* of the instance (own_track_id) and leaves the class attribute alone.
Track(id, class_track_id) ==
    [id |-> IF id = <<>> \/ id = <<0>> THEN class_track_id ELSE id[1],
     own_track_id |-> IF id = <<>> \/ id = <<0>> THEN <<class_track_id + 1>>
                      ELSE <<>>,
     start_frame |-> 0,
     bounds_history |-> <<>>,
     frames_since_target_seen |-> 0,
     vel_x |-> 0,
     vel_y |-> 0,
     tag |-> "unknown"]

Construct(id) ==
    /\ Len(tracks) < MaxTracks
    /\ tracks' = Append(tracks, Track(id, Track_track_id))
    /\ id_args' = Append(id_args, id)
    /\ call' = [op |-> "__init__", raised |-> "none"]
    /\ UNCHANGED Track_track_id

\* add_frame(bounds) on a track
add_frame(track, region) ==
    LET history == Append(track.bounds_history, copy(region))
        n == Len(history)
    IN  [track EXCEPT
            !.bounds_history = history,
            !.frames_since_target_seen = 0,
            !.vel_x = IF n >= 2 THEN mid_x(history[n]) - mid_x(history[n - 1])
                      ELSE 0,
            !.vel_y = IF n >= 2 THEN mid_y(history[n]) - mid_y(history[n - 1])
                      ELSE 0]

AddFrame(i, region) ==
    /\ CanGrow(tracks[i])
    /\ tracks' = [tracks EXCEPT ![i] = add_frame(tracks[i], region)]
    /\ call' = [op |-> "add_frame", self |-> i, raised |-> "none"]
    /\ UNCHANGED <<Track_track_id, id_args>>

\* add_blank_frame without the reset of the velocity
add_blank_frame_keeps_velocity(track) ==
    LET history == Append(track.bounds_history, copy(bounds(track)))
        n == Len(history)
    IN  [track EXCEPT
            !.bounds_history =
                [history EXCEPT ![n].mass = 0,
                                ![n].pixel_variance = 0,
                                ![n].frame_index = history[n].frame_index + 1]]

\* add_blank_frame without the append: the current last entry is blanked
add_blank_frame_in_place(track) ==
    LET n == len(track)
    IN  [track EXCEPT
            !.bounds_history =
                [track.bounds_history EXCEPT
                    ![n].mass = 0,
                    ![n].pixel_variance = 0,
                    ![n].frame_index = track.bounds_history[n].frame_index + 1],
            !.vel_x = 0,
            !.vel_y = 0]

\* add_blank_frame appending self.bounds itself, not a copy of it: the
\* assignments then change the previous last entry as well
add_blank_frame_aliased(track) ==
    LET history == Append(track.bounds_history, bounds(track))
        n == Len(history)
        blank == [history[n] EXCEPT !.mass = 0, !.pixel_variance = 0,
                                    !.frame_index = history[n].frame_index + 1]
    IN  [track EXCEPT
            !.bounds_history = [history EXCEPT ![n - 1] = blank, ![n] = blank],
            !.vel_x = 0,
            !.vel_y = 0]

\* add_blank_frame(): self.bounds is read before the append, so an empty
\* history raises IndexError with nothing changed.  After the append
\* self.bounds is the new copy, which is the entry the assignments change.
add_blank_frame(track) ==
    LET history == Append(track.bounds_history, copy(bounds(track)))
        n == Len(history)
    IN  [track EXCEPT
            !.bounds_history =
                [history EXCEPT ![n].mass = 0,
                                ![n].pixel_variance = 0,
                                ![n].frame_index = history[n].frame_index + 1],
            !.vel_x = 0,
            !.vel_y = 0]

AddBlankFrame(i) ==
    /\ CanGrow(tracks[i])
    /\ IF len(tracks[i]) = 0
       THEN /\ call' = [op |-> "add_blank_frame", self |-> i,
                        raised |-> "IndexError"]
            /\ UNCHANGED tracks
       ELSE /\ tracks' = [tracks EXCEPT ![i] = add_blank_frame(tracks[i])]
            /\ call' = [op |-> "add_blank_frame", self |-> i,
                        raised |-> "none"]
    /\ UNCHANGED <<Track_track_id, id_args>>

\* The controller counts the frames a track went unseen:
\* track.frames_since_target_seen += 1.
MarkUnseen(i) ==
    /\ tracks[i].frames_since_target_seen < MaxUnseen
    /\ tracks' = [tracks EXCEPT ![i].frames_since_target_seen = @ + 1]
    /\ call' = [op |-> "frames_since_target_seen += 1", self |-> i,
                raised |-> "none"]
    /\ UNCHANGED <<Track_track_id, id_args>>

\* ---------------------------------------------------------------- trim

\* a frame is empty when int(mass) is at most this
EmptyMass == 2

\* [int(bound.mass) for bound in self.bounds_history]
mass_history(track) ==
    [k \in 1..len(track) |-> int(track.bounds_history[k].mass, 2)]

\* while start < len(self) and mass_history[start] <= 2: start += 1
RECURSIVE scan_start(_, _)
scan_start(masses, start) ==
    IF start < Len(masses) /\ masses[start + 1] <= EmptyMass
    THEN scan_start(masses, start + 1)
    ELSE start

\* while end > 0 and mass_history[end] <= 2: end -= 1
RECURSIVE scan_end(_, _)
scan_end(masses, end) ==
    IF end > 0 /\ masses[end + 1] <= EmptyMass
    THEN scan_end(masses, end - 1)
    ELSE end

\* the backward scan started one frame early
trim_end_short(track) == scan_end(mass_history(track), len(track) - 2)

trim_start(track) == scan_start(mass_history(track), 0)
trim_end(track) == scan_end(mass_history(track), len(track) - 1)

\* bounds_history[start:end]: the last kept frame is dropped
slice_short(history, start, end) == SubSeq(history, start + 1, end)

\* bounds_history[start:end+1], start and end counted from 0
slice(history, start, end) == SubSeq(history, start + 1, end + 1)

trim(track) ==
    LET start == trim_start(track)
        end == trim_end(track)
    IN  IF end < start
        THEN [track EXCEPT !.start_frame = 0, !.bounds_history = <<>>]
        ELSE [track EXCEPT !.start_frame = track.start_frame + start,
                           !.bounds_history =
                               slice(track.bounds_history, start, end)]

Trim(i) ==
    /\ tracks' = [tracks EXCEPT ![i] = trim(tracks[i])]
    /\ call' = [op |-> "trim", self |-> i, raised |-> "none",
                mass_history |-> mass_history(tracks[i]),
                start |-> trim_start(tracks[i]), end |-> trim_end(tracks[i])]
    /\ UNCHANGED <<Track_track_id, id_args>>

\* ---------------------------------------------------------------- smooth

\* One frame of the loop of smooth.  frame_width is the sum of three widths
\* over 3, frame_x - frame_width / 2 is (3 * mid_x - sum) / 6 with mid_x in
\* half-pixels; int() truncates both.
smooth_frame(history, k, frame_bounds) ==
    LET prev_frame == history[Max(1, k - 1)]
        current_frame == history[k]
        next_frame == history[Min(Len(history), k + 1)]
        widths == prev_frame.width + current_frame.width + next_frame.width
        heights == prev_frame.height + current_frame.height + next_frame.height
        frame == Region(int(3 * mid_x(current_frame) - widths, 6),
                        int(3 * mid_y(current_frame) - heights, 6),
                        int(widths, 3),
                        int(heights, 3))
    IN  crop(frame, frame_bounds)

smooth(track, frame_bounds) ==
    [track EXCEPT !.bounds_history =
        [k \in 1..len(track) |->
            smooth_frame(track.bounds_history, k, frame_bounds)]]

\* An empty history returns at once.  Otherwise next_frame =
\* self.bounds_history[1] is read before the loop, which raises IndexError
\* on a history of one frame, before anything is changed.
Smooth(i, frame_bounds) ==
    /\ IF len(tracks[i]) = 0
       THEN /\ call' = [op |-> "smooth", self |-> i, raised |-> "none"]
            /\ UNCHANGED tracks
       ELSE IF len(tracks[i]) < 2
       THEN /\ call' = [op |-> "smooth", self |-> i, raised |-> "IndexError"]
            /\ UNCHANGED tracks
       ELSE /\ tracks' = [tracks EXCEPT ![i] = smooth(tracks[i], frame_bounds)]
            /\ call' = [op |-> "smooth", self |-> i, raised |-> "none"]
    /\ UNCHANGED <<Track_track_id, id_args>>

\* ---------------------------------------------------------------- scores

\* the expected x rounded down, not toward zero
expected_x_floor(track) == (mid_x(bounds(track)) + track.vel_x) \div 2

\* expected_x = int(self.bounds.mid_x + self.vel_x), in pixels
expected_x(track) == int(mid_x(bounds(track)) + track.vel_x, 2)
expected_y(track) == int(mid_y(bounds(track)) + track.vel_y, 2)

\* distance ** 2, in quarter square pixels: the square of
\* region.mid - expected taken in half-pixels.
distance_squared(track, region) ==
    (mid_x(region) - 2 * expected_x(track)) * (mid_x(region) - 2 * expected_x(track))
  + (mid_y(region) - 2 * expected_y(track)) * (mid_y(region) - 2 * expected_y(track))

\* size_difference as <<numerator, denominator>>
size_difference(track, region) ==
    <<Abs(area(region) - area(bounds(track))) * 100, area(bounds(track)) + 50>>

get_track_region_score(track, region) ==
    [distance_squared |-> distance_squared(track, region),
     size_difference |-> size_difference(track, region)]

\* self.bounds raises IndexError on an empty history.
GetTrackRegionScore(i, region) ==
    /\ call' = IF len(tracks[i]) = 0
               THEN [op |-> "get_track_region_score", self |-> i,
                     region |-> region, raised |-> "IndexError"]
               ELSE [op |-> "get_track_region_score", self |-> i,
                     region |-> region, raised |-> "none",
                     ret |-> get_track_region_score(tracks[i], region)]
    /\ UNCHANGED <<Track_track_id, tracks, id_args>>

\* ---------------------------------------------------------------- overlap

\* overlap > threshold
overlaps_strictly(our_bounds, other_bounds, threshold) ==
    overlap_area(our_bounds, other_bounds) * threshold[2]
        > threshold[1] * area(our_bounds)

\* overlap >= threshold, with overlap = overlap_area / area and the
\* threshold <<numerator, denominator>>
overlaps(our_bounds, other_bounds, threshold) ==
    overlap_area(our_bounds, other_bounds) * threshold[2]
        >= threshold[1] * area(our_bounds)

\* The frames of range(pos, end + 1) that the loop counts, or -1 once a
\* division by a zero area has raised.
RECURSIVE frames_overlapped(_, _, _, _, _)
frames_overlapped(self, other_track, threshold, pos, end) ==
    IF pos > end THEN 0
    ELSE LET our_index == pos - self.start_frame
             other_index == pos - other_track.start_frame
             rest == frames_overlapped(self, other_track, threshold, pos + 1, end)
         IN  IF our_index >= 0 /\ other_index >= 0
                /\ our_index < len(self) /\ other_index < len(other_track)
             THEN LET our_bounds == self.bounds_history[our_index + 1]
                      other_bounds == other_track.bounds_history[other_index + 1]
                  IN  IF area(our_bounds) = 0 \/ rest = -1 THEN -1
                      ELSE IF overlaps(our_bounds, other_bounds, threshold)
                      THEN rest + 1
                      ELSE rest
             ELSE rest

\* get_overlap_ratio without the guard for empty tracks: the division by
\* len(self) raises on an empty self
get_overlap_ratio_unguarded(self, other_track, threshold) ==
    LET start == Max(self.start_frame, other_track.start_frame)
        end == Min(self.start_frame + len(self),
                   other_track.start_frame + len(other_track))
        count == frames_overlapped(self, other_track, threshold, start, end)
    IN  IF count = -1 \/ len(self) = 0
        THEN [raised |-> "ZeroDivisionError", num |-> 0, den |-> 1]
        ELSE [raised |-> "none", num |-> count, den |-> len(self)]

\* The ratio as [num, den]; raised is set when a division by zero ends the call.
get_overlap_ratio(self, other_track, threshold) ==
    IF len(self) = 0 \/ len(other_track) = 0
    THEN [raised |-> "none", num |-> 0, den |-> 1]
    ELSE LET start == Max(self.start_frame, other_track.start_frame)
             end == Min(self.start_frame + len(self),
                        other_track.start_frame + len(other_track))
             count == frames_overlapped(self, other_track, threshold, start, end)
         IN  IF count = -1
             THEN [raised |-> "ZeroDivisionError", num |-> 0, den |-> 1]
             ELSE [raised |-> "none", num |-> count, den |-> len(self)]

GetOverlapRatio(i, j, threshold) ==
    /\ call' = [op |-> "get_overlap_ratio", self |-> i, other_track |-> j,
                threshold |-> threshold,
                raised |-> get_overlap_ratio(tracks[i], tracks[j], threshold).raised,
                ret |-> get_overlap_ratio(tracks[i], tracks[j], threshold)]
    /\ UNCHANGED <<Track_track_id, tracks, id_args>>

\* ---------------------------------------------------------------- specifications

\* Track construction alone: the process builds Tracks one after another.
InitIds ==
    /\ Track_track_id = 1
    /\ tracks = <<>>
    /\ id_args = <<>>
    /\ call = [op |-> "import", raised |-> "none"]

NextIds == \E id \in IdArgs : Construct(id)

SpecIds == InitIds /\ [][NextIds]_vars

\* One track, built without an id, driven by its controller.
Init ==
    /\ Track_track_id = 1
    /\ tracks = <<Track(<<>>, 1)>>
    /\ id_args = <<<<>>>>
    /\ call = [op |-> "__init__", raised |-> "none"]

Next ==
    \/ \E region \in Regions : AddFrame(1, region)
    \/ AddBlankFrame(1)
    \/ MarkUnseen(1)
    \/ Trim(1)
    \/ Smooth(1, VideoFrame)
    \/ \E region \in Regions : GetTrackRegionScore(1, region)

Spec == Init /\ [][Next]_vars

\* Two tracks, each driven by its controller, the first compared with the
\* second (the two go through the same operations, so every pair of
\* reachable tracks, equal ones included, is compared in both orders).
InitPair ==
    /\ Track_track_id = 1
    /\ tracks = <<Track(<<>>, 1), Track(<<>>, 1)>>
    /\ id_args = <<<<>>, <<>>>>
    /\ call = [op |-> "__init__", raised |-> "none"]

NextPair ==
    \/ \E i \in 1..2, region \in PairRegions : AddFrame(i, region)
    \/ \E i \in 1..2 : AddBlankFrame(i)
    \/ \E i \in 1..2 : Trim(i)
    \/ \E i \in 1..2 : Smooth(i, VideoFrame)
    \/ \E threshold \in Thresholds : GetOverlapRatio(1, 2, threshold)

SpecPair == InitPair /\ [][NextPair]_vars

\* ---------------------------------------------------------------- claims

\* the frames of a track: start_frame <= f < start_frame + len
frames(track) == track.start_frame .. (track.start_frame + len(track) - 1)

\* (vel_x, vel_y) is the midpoint delta of the two most recent entries,
\* (0, 0) with fewer than two
VelocityIsLastDelta(track) ==
    LET n == len(track)
        h == track.bounds_history
    IN  IF n >= 2
        THEN /\ track.vel_x = mid_x(h[n]) - mid_x(h[n - 1])
             /\ track.vel_y = mid_y(h[n]) - mid_y(h[n - 1])
        ELSE track.vel_x = 0 /\ track.vel_y = 0

\* C1: any two Tracks built without an explicit id have different ids, and
\* the one built later has the larger id.
C1_AutoIdsIncrease ==
    \A i, j \in 1..Len(tracks) :
        (i < j /\ id_args[i] = <<>> /\ id_args[j] = <<>>)
            => tracks[i].id < tracks[j].id

\* C2 as claimed: in every state reachable by add_frame, add_blank_frame,
\* trim and smooth, the velocity is the midpoint delta of the two most
\* recent entries of bounds_history, (0, 0) with fewer than two.
C2_VelocityAlways ==
    \A i \in 1..Len(tracks) : VelocityIsLastDelta(tracks[i])

\* C2 as amended: right after add_frame or add_blank_frame returns, the
\* velocity is the midpoint delta of the two most recent entries ((0, 0)
\* with fewer than two); trim and smooth leave vel_x and vel_y as they were.
C2_VelocityAfterAdd ==
    /\ [](call.op \in {"add_frame", "add_blank_frame"} /\ call.raised = "none"
            => VelocityIsLastDelta(tracks[call.self]))
    /\ [][call'.op \in {"trim", "smooth"}
            => /\ tracks'[call'.self].vel_x = tracks[call'.self].vel_x
               /\ tracks'[call'.self].vel_y = tracks[call'.self].vel_y]_vars

\* add_frame has recomputed a non-zero velocity on a track trimmed before
C2_Witness ==
    /\ call.op = "add_frame"
    /\ len(tracks[call.self]) >= 2
    /\ tracks[call.self].start_frame > 0
    /\ tracks[call.self].vel_x # 0

\* the indices (from 1) of the frames of a history with int(mass) > 2
NonEmptyFrames(history) ==
    {k \in 1..Len(history) : history[k].mass >= 2 * (EmptyMass + 1)}

SetMin(S) == CHOOSE k \in S : \A m \in S : k <= m
SetMax(S) == CHOOSE k \in S : \A m \in S : k >= m

\* C3: trim() clears the history and sets start_frame to 0 when every frame
\* is empty (int(mass) <= 2); otherwise it keeps exactly the frames from the
\* first non-empty one to the last non-empty one and adds the number of
\* removed leading frames to start_frame, so that the first and last kept
\* frames have mass > 2.
C3_TrimPostcondition ==
    [][call'.op = "trim" =>
        LET before == tracks[call'.self]
            after == tracks'[call'.self]
            kept == NonEmptyFrames(before.bounds_history)
        IN  IF kept = {}
            THEN after.bounds_history = <<>> /\ after.start_frame = 0
            ELSE /\ after.bounds_history =
                        [k \in 1..(SetMax(kept) - SetMin(kept) + 1) |->
                            before.bounds_history[SetMin(kept) + k - 1]]
                 /\ after.start_frame = before.start_frame + SetMin(kept) - 1
                 /\ after.bounds_history[1].mass > 2 * EmptyMass
                 /\ Last(after.bounds_history).mass > 2 * EmptyMass]_vars

\* trim has removed leading and trailing frames and kept some
C3_Witness ==
    /\ call.op = "trim"
    /\ call.start >= 1
    /\ call.end >= call.start
    /\ call.end + 1 < Len(call.mass_history)
    /\ len(tracks[call.self]) = call.end - call.start + 1

\* C4: trim() is idempotent: trimming a trimmed track changes neither
\* bounds_history nor start_frame.
C4_TrimIdempotent ==
    \A i \in 1..Len(tracks) :
        LET once == trim(tracks[i])
            twice == trim(once)
        IN  /\ twice.bounds_history = once.bounds_history
            /\ twice.start_frame = once.start_frame

\* trim has emptied a history of two or more frames, all of them empty,
\* on a track that had been trimmed to a later start before
C4_Witness ==
    /\ call.op = "trim"
    /\ Len(call.mass_history) >= 2
    /\ call.end < call.start
    /\ tracks[call.self].bounds_history = <<>>
    /\ tracks[call.self].start_frame = 0

\* C7: len(track) is the length of bounds_history, and each add_frame or
\* add_blank_frame call that succeeds increases it by exactly 1 and leaves
\* start_frame alone, so the exclusive end frame advances by exactly 1.
C7_LenGrowsByOne ==
    [][call'.op \in {"add_frame", "add_blank_frame"} /\ call'.raised = "none" =>
        LET before == tracks[call'.self]
            after == tracks'[call'.self]
        IN  /\ len(after) = Len(after.bounds_history)
            /\ len(after) = len(before) + 1
            /\ after.start_frame = before.start_frame
            /\ after.start_frame + len(after)
                    = before.start_frame + len(before) + 1]_vars

\* add_blank_frame has extended a track that starts after frame 0
C7_Witness ==
    /\ call.op = "add_blank_frame"
    /\ call.raised = "none"
    /\ tracks[call.self].start_frame >= 1
    /\ len(tracks[call.self]) >= 2

same_geometry(a, b) ==
    a.x = b.x /\ a.y = b.y /\ a.width = b.width /\ a.height = b.height

\* every frame has the same width, height and midpoint
Uniform(history) ==
    \A k \in 1..Len(history) :
        /\ history[k].width = history[1].width
        /\ history[k].height = history[1].height
        /\ mid_x(history[k]) = mid_x(history[1])
        /\ mid_y(history[k]) = mid_y(history[1])

\* C8: smooth() on a track of one or more frames that all have the same
\* width, height and midpoint completes, and leaves the history with the
\* same length and every entry with the same position, width and height.
C8_SmoothKeepsUniform ==
    [][(/\ call'.op = "smooth"
        /\ len(tracks[call'.self]) >= 1
        /\ Uniform(tracks[call'.self].bounds_history)) =>
        LET before == tracks[call'.self].bounds_history
            after == tracks'[call'.self].bounds_history
        IN  /\ call'.raised = "none"
            /\ Len(after) = Len(before)
            /\ \A k \in 1..Len(before) : same_geometry(after[k], before[k])]_vars

\* the square, in half-pixels, of the distance from region's midpoint to
\* the point (px, py) given in half-pixels
SquaredDistance(region, px, py) ==
    (mid_x(region) - px) * (mid_x(region) - px)
  + (mid_y(region) - py) * (mid_y(region) - py)

\* C9 as claimed: get_track_region_score(region) on a non-empty track returns
\* the distance from region's midpoint to bounds.mid + vel, also for
\* half-pixel midpoints, and changes no field of the track.
C9_DistanceToPrediction ==
    [][call'.op = "get_track_region_score" /\ len(tracks[call'.self]) >= 1 =>
        LET track == tracks[call'.self]
        IN  /\ call'.raised = "none"
            /\ call'.ret.distance_squared =
                 SquaredDistance(call'.region,
                                 mid_x(bounds(track)) + track.vel_x,
                                 mid_y(bounds(track)) + track.vel_y)
            /\ tracks' = tracks]_vars

\* h half-pixels truncated to whole pixels: the integer e between 0 and
\* h / 2 with less than one pixel from e to h / 2
TowardZero(h) ==
    CHOOSE e \in -Abs(h)..Abs(h) :
        IF h >= 0 THEN 2 * e <= h /\ h < 2 * e + 2
        ELSE 2 * e >= h /\ h > 2 * e - 2

\* C9 as amended: the distance returned is the one from region's midpoint to
\* the expected point with each coordinate truncated toward zero to a whole
\* pixel, (int(bounds.mid_x + vel_x), int(bounds.mid_y + vel_y)); it is 0
\* exactly when region's midpoint is that truncated point, and it is the
\* distance to bounds.mid + vel whenever both coordinates of bounds.mid + vel
\* are whole pixels.  The call changes no field of the track.
C9_DistanceToTruncatedPrediction ==
    [][call'.op = "get_track_region_score" /\ len(tracks[call'.self]) >= 1 =>
        LET track == tracks[call'.self]
            px == mid_x(bounds(track)) + track.vel_x
            py == mid_y(bounds(track)) + track.vel_y
            d == call'.ret.distance_squared
        IN  /\ call'.raised = "none"
            /\ d = SquaredDistance(call'.region,
                                   2 * TowardZero(px), 2 * TowardZero(py))
            /\ (d = 0) <=> /\ mid_x(call'.region) = 2 * TowardZero(px)
                           /\ mid_y(call'.region) = 2 * TowardZero(py)
            /\ (px % 2 = 0 /\ py % 2 = 0)
                    => d = SquaredDistance(call'.region, px, py)
            /\ tracks' = tracks]_vars

\* a score has been taken where the predicted point is off the pixel grid
\* and left of the frame
C9_Witness ==
    /\ call.op = "get_track_region_score"
    /\ call.raised = "none"
    /\ (mid_x(bounds(tracks[call.self])) + tracks[call.self].vel_x) % 2 = 1
    /\ mid_x(bounds(tracks[call.self])) + tracks[call.self].vel_x < 0

\* C10: add_blank_frame() on a non-empty track appends one entry with the
\* geometry of the previous last entry, mass 0, pixel_variance 0 and that
\* entry's frame_index plus one, sets the velocity to (0, 0) and changes
\* nothing else: not the entries stored before, not start_frame, not
\* frames_since_target_seen.  On an empty track it fails and changes nothing.
C10_BlankFrameEffect ==
    [][call'.op = "add_blank_frame" =>
        LET before == tracks[call'.self]
            after == tracks'[call'.self]
            n == len(before)
        IN  IF n = 0
            THEN call'.raised # "none" /\ tracks' = tracks
            ELSE /\ call'.raised = "none"
                 /\ len(after) = n + 1
                 /\ \A k \in 1..n : after.bounds_history[k] = before.bounds_history[k]
                 /\ same_geometry(after.bounds_history[n + 1], before.bounds_history[n])
                 /\ after.bounds_history[n + 1].mass = 0
                 /\ after.bounds_history[n + 1].pixel_variance = 0
                 /\ after.bounds_history[n + 1].frame_index
                        = before.bounds_history[n].frame_index + 1
                 /\ after.vel_x = 0 /\ after.vel_y = 0
                 /\ after.start_frame = before.start_frame
                 /\ after.frames_since_target_seen = before.frames_since_target_seen
                 /\ after.id = before.id /\ after.tag = before.tag
                 /\ \A j \in 1..Len(tracks) : j # call'.self => tracks'[j] = tracks[j]]_vars

\* a blank frame has been added after a frame with mass, on a track that
\* moved and that the controller has counted as unseen
C10_Witness ==
    /\ call.op = "add_blank_frame"
    /\ call.raised = "none"
    /\ tracks[call.self].frames_since_target_seen >= 1
    /\ len(tracks[call.self]) >= 3
    /\ tracks[call.self].bounds_history[len(tracks[call.self]) - 1].mass > 0
    /\ ~same_geometry(tracks[call.self].bounds_history[1], bounds(tracks[call.self]))

\* the frame ranges of the two tracks have a frame in common
RangesIntersect(a, b) == frames(a) \cap frames(b) # {}

OverlappingFrames(self, other_track, threshold) ==
    {f \in frames(self) \cap frames(other_track) :
        LET ours == self.bounds_history[f - self.start_frame + 1]
            theirs == other_track.bounds_history[f - other_track.start_frame + 1]
        IN  overlap_area(ours, theirs) * threshold[2]
                >= threshold[1] * area(ours)}

\* C6: for two non-empty tracks get_overlap_ratio returns N / len(self), N
\* the number of frames f held by both tracks at which overlap_area / area
\* of self's entry is at least the threshold; the frame at the exclusive end
\* of the shared window is not counted and the denominator is len(self).
C6_OverlapRatioValue ==
    (/\ call.op = "get_overlap_ratio"
     /\ len(tracks[call.self]) >= 1
     /\ len(tracks[call.other_track]) >= 1) =>
        LET self == tracks[call.self]
            other_track == tracks[call.other_track]
        IN  /\ call.raised = "none"
            /\ call.ret.num =
                 Cardinality(OverlappingFrames(self, other_track, call.threshold))
            /\ call.ret.den = len(self)

\* a track of three frames from frame 0 has been compared with a track that
\* starts at frame 1 and overlaps it fully: the ratio is 2/3
C6_Witness ==
    /\ call.op = "get_overlap_ratio"
    /\ tracks[call.self].start_frame = 0
    /\ len(tracks[call.self]) = 3
    /\ tracks[call.other_track].start_frame = 1
    /\ len(tracks[call.other_track]) = 2
    /\ call.ret.num = 2
    /\ call.ret.den = 3

====
